---------------------------- MODULE Spec2Model ----------------------------
(***************************************************************************)
(* A model of app.py, the "News Bias AI" Streamlit script: the article     *)
(* selector get_recent_articles (behind st.cache_data), the content        *)
(* fetcher fetch_full_article, the three Gemini analyses and the script's  *)
(* article loop.                                                           *)
(*                                                                         *)
(* Python values are modelled as follows.                                  *)
(*   str     [t |-> "str", s |-> <<"B", "i", ...>>]  (a tuple of chars)    *)
(*   None    [t |-> "None", s |-> <<>>]                                    *)
(*   dict    a record whose DOMAIN is the set of keys that are present     *)
(*   list    a sequence                                                    *)
(***************************************************************************)
EXTENDS Integers, Sequences, FiniteSets, TLC

VARIABLES
    sel,              \* one call of get_recent_articles: its inputs and what it returned
    fetch,            \* one call of fetch_full_article: its input and what it returned
    now,              \* the clock st.cache_data reads, in seconds
    cache,            \* st.cache_data's entries for get_recent_articles, keyed by source
    lastCall,         \* the last call made through the cache, as its caller saw it
    pc,               \* where the script run is
    selected_source,  \* st.selectbox's value for this run
    articles,         \* the batch the run iterates over
    i,                \* enumerate(articles)'s index, 1-based
    article_content,  \* the article loop's local
    outcome,          \* how model.generate_content ended, per analysis of this article
    analysis,         \* summary, bias_analysis, devils_advocate of this article
    log,              \* the calls the run has made, in order
    window            \* per source, the memoization window the last calls fell in

vars == << sel, fetch, now, cache, lastCall, pc, selected_source, articles, i,
           article_content, outcome, analysis, log, window >>

---------------------------------------------------------------------------
(* Bounds of the model. *)

\* The longest 'articles' list the search API answers with (pageSize is 10).
MaxArticles == 6

\* The most <p> elements of a fetched page.
MaxParagraphs == 3

\* The clock stops advancing here.
MaxClock == 3600

---------------------------------------------------------------------------
(* Python strings. *)

Str(chars) == [t |-> "str", s |-> chars]
None == [t |-> "None", s |-> <<>>]
IsNone(v) == v.t = "None"
EmptyStr == Str(<<>>)

UpperCase == <<"A", "B", "C", "D", "E", "F", "G", "H", "I", "J", "K", "L", "M",
               "N", "O", "P", "Q", "R", "S", "T", "U", "V", "W", "X", "Y", "Z">>
LowerCase == <<"a", "b", "c", "d", "e", "f", "g", "h", "i", "j", "k", "l", "m",
               "n", "o", "p", "q", "r", "s", "t", "u", "v", "w", "x", "y", "z">>

\* One character of str.lower().
LowerChar(c) ==
    IF \E k \in 1..Len(UpperCase) : UpperCase[k] = c
    THEN LowerCase[CHOOSE k \in 1..Len(UpperCase) : UpperCase[k] = c]
    ELSE c

\* str.lower() on the characters of a string.
lower(chars) == [k \in 1..Len(chars) |-> LowerChar(chars[k])]

\* Python's "sub in s" for strings.
Contains(sub, chars) ==
    \E k \in 0..(Len(chars) - Len(sub)) : SubSeq(chars, k + 1, k + Len(sub)) = sub

\* dict.get(key, default)
Get(d, key, default) == IF key \in DOMAIN d THEN d[key] ELSE default

---------------------------------------------------------------------------
(* Configuration. *)

NEWS_SOURCES ==
    [s \in {"CNN", "Fox News", "Politico", "NBC News"} |->
        CASE s = "CNN" -> "cnn.com"
          [] s = "Fox News" -> "foxnews.com"
          [] s = "Politico" -> "politico.com"
          [] s = "NBC News" -> "nbcnews.com"]

political_keywords ==
    << <<"p", "o", "l", "i", "t", "i", "c", "s">>,
       <<"g", "o", "v", "e", "r", "n", "m", "e", "n", "t">>,
       <<"c", "o", "n", "g", "r", "e", "s", "s">>,
       <<"s", "e", "n", "a", "t", "e">>,
       <<"w", "h", "i", "t", "e", " ", "h", "o", "u", "s", "e">>,
       <<"b", "i", "d", "e", "n">>,
       <<"t", "r", "u", "m", "p">>,
       <<"e", "l", "e", "c", "t", "i", "o", "n">>,
       <<"d", "e", "m", "o", "c", "r", "a", "t">>,
       <<"r", "e", "p", "u", "b", "l", "i", "c", "a", "n">>,
       <<"c", "a", "m", "p", "a", "i", "g", "n">>,
       <<"v", "o", "t", "e">>,
       <<"l", "e", "g", "i", "s", "l", "a", "t", "i", "o", "n">>,
       <<"p", "o", "l", "i", "c", "y">> >>

\* The batch size: len(political_articles) >= 5 and political_articles[:5].
BatchSize == 5

\* st.cache_data(ttl=3600)
TTL == 3600

---------------------------------------------------------------------------
(* The search API, as get_recent_articles sees it.  A response is what      *)
(* requests.get gave: an exception, or an HTTP answer with a status code    *)
(* and a body that response.json() parses into a dict, or fails to parse.   *)

RequestFailed == [kind |-> "exception", status_code |-> 0, parses |-> FALSE, data |-> <<>>]
HttpNotJson(code) == [kind |-> "http", status_code |-> code, parses |-> FALSE, data |-> <<>>]
HttpJson(code, d) == [kind |-> "http", status_code |-> code, parses |-> TRUE, data |-> d]
\* No request was made.
NoResponse == [kind |-> "none", status_code |-> 0, parses |-> FALSE, data |-> <<>>]

\* NewsAPI's bodies: {"status": "ok", "articles": [...]} and
\* {"status": "error", "code": ..., "message": ...}.
OkBody(list) == [status |-> "ok", articles |-> list]
ErrorBody == [status |-> "error", code |-> "rateLimited", message |-> "Too many requests"]

---------------------------------------------------------------------------
(* Articles the search API may answer with. *)

Article(title, description, url) ==
    [title |-> title, description |-> description, url |-> url]

\* Political by its title, in mixed case.
aBiden == Article(Str(<<"B", "i", "d", "e", "n", " ", "W", "i", "n", "s">>),
                  Str(<<"R", "e", "c", "a", "p">>), Str(<<"u", "1">>))
\* Political by its description only.
aSenate == Article(Str(<<"U", "p", "d", "a", "t", "e">>),
                   Str(<<"s", "e", "n", "a", "t", "e", " ", "v", "o", "t", "e">>),
                   Str(<<"u", "2">>))
\* Not political; the description key is missing.
aWeather == [title |-> Str(<<"W", "e", "a", "t", "h", "e", "r">>), url |-> Str(<<"u", "3">>)]
\* Not political; the title key is missing.
aNoTitle == [description |-> Str(<<"S", "c", "o", "r", "e", "s">>), url |-> Str(<<"u", "4">>)]
\* "description": null, as NewsAPI answers for an article without one.
aNullDesc == Article(Str(<<"M", "a", "r", "k", "e", "t", "s">>), None, Str(<<"u", "5">>))
\* Political by its description; the title is empty.
aEmptyTitle == Article(EmptyStr, Str(<<"E", "l", "e", "c", "t", "i", "o", "n">>),
                       Str(<<"u", "6">>))
\* Not political; the url key is missing.
aNoUrl == [title |-> Str(<<"R", "a", "i", "n">>), description |-> EmptyStr]
\* Not political; the url is empty.
aEmptyUrl == Article(Str(<<"S", "n", "o", "w">>), Str(<<"C", "o", "l", "d">>), EmptyStr)

\* All lists of at most n articles drawn from the set S.
ListsOver(S, n) == UNION { [1..k -> S] : k \in 0..n }

\* The articles of the model.
KnownArticles ==
    { aBiden, aSenate, aWeather, aNoTitle, aNullDesc, aEmptyTitle, aNoUrl, aEmptyUrl }

---------------------------------------------------------------------------
(* get_recent_articles, lines 143-245. *)

\* What a call leaves behind: the list it returned, the st.error it showed
\* ("" when none) and the requests it sent, in order.
Returned(list, err, reqs) == [articles |-> list, error |-> err, requests |-> reqs]

\* params of the first request (lines 156-162) and of the broader one (185-191).
DomainRequest(source_domain) == [param |-> "domains", value |-> source_domain]
BroadRequest(source_domain) == [param |-> "q", value |-> source_domain]

\* not articles_data.get('articles'): the key is missing or the list is empty.
NoArticlesIn(articles_data) ==
    \/ "articles" \notin DOMAIN articles_data
    \/ Len(articles_data.articles) = 0

\* Lines 217-218: .lower() on the title and on the description.  A key that
\* is missing defaults to ''; a key whose value is None raises AttributeError.
LowerRaises(article) ==
    \/ IsNone(Get(article, "title", EmptyStr))
    \/ IsNone(Get(article, "description", EmptyStr))

\* is_political without the .lower() of lines 217-218: the keywords are
\* matched against the title and the description as they are.
is_political_case_sensitive(article) ==
    LET title == Get(article, "title", EmptyStr).s
        description == Get(article, "description", EmptyStr).s
    IN \E k \in 1..Len(political_keywords) :
           \/ Contains(political_keywords[k], title)
           \/ Contains(political_keywords[k], description)

\* Line 219, with title and description as lines 217-218 lowered them.
is_political(article) ==
    LET title == lower(Get(article, "title", EmptyStr).s)
        description == lower(Get(article, "description", EmptyStr).s)
    IN \E k \in 1..Len(political_keywords) :
           \/ Contains(political_keywords[k], title)
           \/ Contains(political_keywords[k], description)

\* is_political, tabulated over the articles of the model (the articles that
\* raise at lines 217-218 are never classified).
political_of == [a \in { x \in KnownArticles : ~LowerRaises(x) } |-> is_political(a)]

\* Lines 216-222: the loop that collects political articles, from index k on.
\* raised: a .lower() raised and the loop was left by the exception.
RECURSIVE PoliticalLoop(_, _, _)
PoliticalLoop(list, k, political_articles) ==
    IF k > Len(list) THEN [raised |-> FALSE, list |-> political_articles]
    ELSE IF LowerRaises(list[k]) THEN [raised |-> TRUE, list |-> political_articles]
    ELSE IF political_of[list[k]]
         THEN LET appended == Append(political_articles, list[k])
              IN IF Len(appended) >= BatchSize
                 THEN [raised |-> FALSE, list |-> appended]
                 ELSE PoliticalLoop(list, k + 1, appended)
         ELSE PoliticalLoop(list, k + 1, political_articles)

\* Line 227 without its test: every article is appended again.
NotInUnchecked(article, list) == TRUE

\* article not in political_articles (line 227): dict equality against the list.
NotIn(article, list) == \A k \in 1..Len(list) : list[k] # article

\* Lines 226-230: the loop that fills the batch up, from index k on.
RECURSIVE FillLoop(_, _, _)
FillLoop(list, k, political_articles) ==
    IF k > Len(list) THEN political_articles
    ELSE IF NotIn(list[k], political_articles)
         THEN LET appended == Append(political_articles, list[k])
              IN IF Len(appended) >= BatchSize
                 THEN appended
                 ELSE FillLoop(list, k + 1, appended)
         ELSE FillLoop(list, k + 1, political_articles)

\* s[:n]
Slice(s, n) == SubSeq(s, 1, IF Len(s) < n THEN Len(s) ELSE n)

\* Lines 211-236 and the handler of line 243: the batch chosen from
\* articles_data['articles'], after the requests reqs.
SelectFrom(list, reqs) ==
    LET first == PoliticalLoop(list, 1, <<>>)
        political_articles ==
            IF Len(first.list) < BatchSize
            THEN FillLoop(list, 1, first.list)
            ELSE first.list
    IN IF first.raised THEN Returned(<<>>, "Unexpected error fetching articles", reqs)
       ELSE IF political_articles = <<>> THEN Returned(<<>>, "No articles found", reqs)
       ELSE Returned(Slice(political_articles, BatchSize), "", reqs)

\* The checks of lines 195 and 202 in the other order: an answer without
\* articles is "No articles found" whatever its status.
AfterRequestsEmptyFirst(response, articles_data, reqs) ==
    IF NoArticlesIn(articles_data) THEN Returned(<<>>, "No articles found", reqs)
    ELSE IF response.status_code # 200 THEN Returned(<<>>, "NewsAPI Error", reqs)
    ELSE SelectFrom(articles_data.articles, reqs)

\* Lines 195-209 and on: the checks made on the response that is current
\* after the requests, and on its parsed body.
AfterRequests(response, articles_data, reqs) ==
    IF response.status_code # 200 THEN Returned(<<>>, "NewsAPI Error", reqs)
    ELSE IF NoArticlesIn(articles_data) THEN Returned(<<>>, "No articles found", reqs)
    ELSE SelectFrom(articles_data.articles, reqs)

\* Lines 170-180 and 192-193: requests.get and response.json(), and the
\* handlers of lines 237-242 for what they raise.  (On a body that is not
\* JSON, response.json() raises a ValueError.)
FailureOf(response) ==
    IF response.kind = "exception" THEN "Network error while fetching articles"
    ELSE IF ~response.parses THEN "Error parsing API response"
    ELSE ""

\* Line 183: the broader request is sent when the first one was answered
\* with a body that parses and names no articles.
MakesSecondRequest(r1) == FailureOf(r1) = "" /\ NoArticlesIn(r1.data)

\* The whole call.  r1 answers the first request and r2 the broader one,
\* if the call makes it.
get_recent_articles(source, r1, r2) ==
    IF source \notin DOMAIN NEWS_SOURCES
    THEN Returned(<<>>, "Invalid news source", <<>>)
    ELSE LET source_domain == NEWS_SOURCES[source]
             one == << DomainRequest(source_domain) >>
             two == << DomainRequest(source_domain), BroadRequest(source_domain) >>
         IN IF FailureOf(r1) # "" THEN Returned(<<>>, FailureOf(r1), one)
            ELSE IF MakesSecondRequest(r1)
                 THEN IF FailureOf(r2) # "" THEN Returned(<<>>, FailureOf(r2), two)
                      ELSE AfterRequests(r2, r2.data, two)
                 ELSE AfterRequests(r1, r1.data, one)

---------------------------------------------------------------------------
(* One call of get_recent_articles on any input. *)

SelectArticles == { aBiden, aSenate, aWeather, aNoTitle, aNullDesc }

\* What the search API may answer to a request: a failure of the network, a
\* body that is not JSON, NewsAPI's error body under status 429, or a list of
\* articles under status 200 or 429.
ResponseKinds == { "failed", "not json", "error", "ok", "stale" }
Response(kind, list) ==
    CASE kind = "failed" -> RequestFailed
      [] kind = "not json" -> HttpNotJson(200)
      [] kind = "error" -> HttpJson(429, ErrorBody)
      [] kind = "ok" -> HttpJson(200, OkBody(list))
      [] kind = "stale" -> HttpJson(429, OkBody(list))

\* The lists that go with a kind of response: none with a failure, and a list
\* that is not empty under a status that is not 200.
GoesWith(kind, list) ==
    CASE kind = "ok" -> TRUE
      [] kind = "stale" -> list # <<>>
      [] OTHER -> list = <<>>

\* The lists answered to the broader request are kept short.
BroadArticles == 2

SelectSources == { "CNN", "Politico", "The Onion" }

SelInit == [phase |-> "ready", source |-> "", r1 |-> NoResponse, r2 |-> NoResponse,
            out |-> Returned(<<>>, "", <<>>)]

\* get_recent_articles(source) is called and returns.
CallSelect ==
    /\ sel.phase = "ready"
    /\ \E source \in SelectSources :
         IF source \notin DOMAIN NEWS_SOURCES
         THEN sel' = [phase |-> "returned", source |-> source, r1 |-> NoResponse,
                      r2 |-> NoResponse,
                      out |-> get_recent_articles(source, NoResponse, NoResponse)]
         ELSE \E kind1 \in ResponseKinds, n1 \in 0..MaxArticles :
                \E list1 \in [1..n1 -> SelectArticles] :
                  /\ GoesWith(kind1, list1)
                  /\ LET r1 == Response(kind1, list1)
                     IN IF ~MakesSecondRequest(r1)
                        THEN sel' = [phase |-> "returned", source |-> source, r1 |-> r1,
                                     r2 |-> NoResponse,
                                     out |-> get_recent_articles(source, r1, NoResponse)]
                        ELSE \E kind2 \in ResponseKinds, n2 \in 0..BroadArticles :
                               \E list2 \in [1..n2 -> SelectArticles \cup {aEmptyTitle}] :
                                 /\ GoesWith(kind2, list2)
                                 /\ sel' = [phase |-> "returned", source |-> source,
                                            r1 |-> r1, r2 |-> Response(kind2, list2),
                                            out |-> get_recent_articles(
                                                        source, r1, Response(kind2, list2))]
    /\ UNCHANGED << fetch, now, cache, lastCall, pc, selected_source, articles, i,
                    article_content, outcome, analysis, log, window >>

---------------------------------------------------------------------------
(* fetch_full_article, lines 247-268. *)

\* len(text) > 50 at line 262.
MinParagraphLength == 50

Whitespace == { " ", "\n", "\t" }

\* str.lstrip() and str.rstrip()
RECURSIVE lstrip(_)
lstrip(chars) ==
    IF chars # <<>> /\ Head(chars) \in Whitespace THEN lstrip(Tail(chars)) ELSE chars
RECURSIVE rstrip(_)
rstrip(chars) ==
    IF chars # <<>> /\ chars[Len(chars)] \in Whitespace
    THEN rstrip(SubSeq(chars, 1, Len(chars) - 1))
    ELSE chars

\* str.strip()
strip(chars) == rstrip(lstrip(chars))

\* sep.join(list), on the characters of the strings.
RECURSIVE join(_, _)
join(sep, list) ==
    IF list = <<>> THEN <<>>
    ELSE IF Len(list) = 1 THEN list[1]
    ELSE list[1] \o sep \o join(sep, Tail(list))

\* The elements line 255 removes, with all they contain.
Decomposed == { "script", "style", "nav", "footer", "header" }

\* Line 262 with >= for >.
SubstantialFromFifty(text) == text # <<>> /\ Len(text) >= MinParagraphLength

\* Line 262: whether a paragraph's stripped text is kept.
Substantial(text) == text # <<>> /\ Len(text) > MinParagraphLength

\* Lines 259-263: the texts kept, of the <p> elements from index k on.
RECURSIVE ParagraphLoop(_, _, _)
ParagraphLoop(paragraphs, k, article_content_list) ==
    IF k > Len(paragraphs) THEN article_content_list
    ELSE LET text == strip(paragraphs[k].text)
         IN ParagraphLoop(paragraphs, k + 1,
                          IF Substantial(text) THEN Append(article_content_list, text)
                          ELSE article_content_list)

\* A handler for requests.exceptions.RequestException alone, as at line 237.
CaughtRequestErrorsOnly(exception) ==
    exception \in { "Timeout", "ConnectionError", "MissingSchema" }

\* The handler of line 266: every Exception is caught.
Caught(exception) == TRUE

\* What a call leaves behind: the value returned, and the exception that left
\* the function ("" when none did).
FetchReturned(value) == [value |-> value, raised |-> ""]
FetchRaised(exception) ==
    IF Caught(exception) THEN FetchReturned(None) ELSE [value |-> None, raised |-> exception]

\* requests.get(url, timeout=10): a URL without a scheme raises MissingSchema
\* before anything is sent; otherwise the site's answer, page.
requests_get(url, page) ==
    IF url.s = <<>> THEN [kind |-> "exception", exception |-> "MissingSchema"] ELSE page

\* The whole call.  page is what the site answers: an exception of requests
\* (a timeout, a connection error), or a status code with markup that
\* BeautifulSoup parses into paragraphs, each inside some element, or fails on.
fetch_full_article(url, page) ==
    LET response == requests_get(url, page)
    IN IF response.kind = "exception" THEN FetchRaised(response.exception)
       ELSE IF response.status_code = 200
            THEN IF ~response.parses THEN FetchRaised("ParserError")
                 ELSE LET remaining == SelectSeq(response.paragraphs,
                                                 LAMBDA p : p.inside \notin Decomposed)
                      IN FetchReturned(Str(join(<<" ">>, ParagraphLoop(remaining, 1, <<>>))))
            ELSE FetchReturned(None)

---------------------------------------------------------------------------
(* Pages a news site may answer with. *)

Repeat(c, n) == [k \in 1..n |-> c]

PageException(exception) == [kind |-> "exception", exception |-> exception]
PageUnparsable(code) ==
    [kind |-> "http", status_code |-> code, parses |-> FALSE, paragraphs |-> <<>>]
Page(code, paragraphs) ==
    [kind |-> "http", status_code |-> code, parses |-> TRUE, paragraphs |-> paragraphs]

Paragraph(inside, text) == [inside |-> inside, text |-> text]

\* 49 characters between spaces: longer than 50 before strip(), shorter after.
pShort == Paragraph("article", <<" ", " ">> \o Repeat("a", 49) \o <<" ", "\n">>)
\* Exactly 50 characters.
pFifty == Paragraph("article", Repeat("b", 50))
\* 51 characters and a leading space.
pLong == Paragraph("div", <<" ">> \o Repeat("c", 51))
\* 60 characters and a trailing newline.
pLonger == Paragraph("article", Repeat("d", 60) \o <<"\n">>)
\* A long paragraph of the navigation.
pNav == Paragraph("nav", Repeat("e", 70))
\* White space only.
pBlank == Paragraph("div", <<" ", "\n", " ">>)

Paragraphs == { pShort, pFifty, pLong, pLonger, pNav, pBlank }

\* What a site may answer: a failure of the network, markup that cannot be
\* parsed, or a page of at most n paragraphs.
PagesOver(n) ==
    { PageException("Timeout"), PageException("ConnectionError"),
      PageUnparsable(200), PageUnparsable(404) }
    \cup { Page(code, ps) : code \in {200, 404}, ps \in ListsOver(Paragraphs, n) }

Urls == { Str(<<"u", "1">>), EmptyStr }

---------------------------------------------------------------------------
(* One call of fetch_full_article on any input. *)

FetchStart == [phase |-> "ready", url |-> EmptyStr, page |-> PageException(""),
               out |-> FetchReturned(None)]

\* fetch_full_article(url) is called and returns, or raises.
CallFetch ==
    /\ fetch.phase = "ready"
    /\ \E url \in Urls, page \in PagesOver(MaxParagraphs) :
           fetch' = [phase |-> "returned", url |-> url, page |-> page,
                     out |-> fetch_full_article(url, page)]
    /\ UNCHANGED << sel, now, cache, lastCall, pc, selected_source, articles, i,
                    article_content, outcome, analysis, log, window >>

---------------------------------------------------------------------------
(* The three analyses, lines 270-334. *)

\* article_content[:8000] in each prompt.
PromptBudget == 8000

SummaryFallback ==
    Str(<<"C", "o", "u", "l", "d", " ", "n", "o", "t", " ", "g", "e", "n",
          "e", "r", "a", "t", "e", " ", "s", "u", "m", "m", "a", "r", "y",
          " ", "d", "u", "e", " ", "t", "o", " ", "a", "n", " ", "e", "r",
          "r", "o", "r", ".">>)
BiasFallback ==
    Str(<<"C", "o", "u", "l", "d", " ", "n", "o", "t", " ", "a", "n", "a",
          "l", "y", "z", "e", " ", "b", "i", "a", "s", " ", "d", "u", "e",
          " ", "t", "o", " ", "a", "n", " ", "e", "r", "r", "o", "r", ".">>)
DevilsFallback ==
    Str(<<"C", "o", "u", "l", "d", " ", "n", "o", "t", " ", "g", "e", "n",
          "e", "r", "a", "t", "e", " ", "d", "e", "v", "i", "l", "'", "s",
          " ", "a", "d", "v", "o", "c", "a", "t", "e", " ", "a", "n", "a",
          "l", "y", "s", "i", "s", " ", "d", "u", "e", " ", "t", "o", " ",
          "a", "n", " ", "e", "r", "r", "o", "r", ".">>)

\* model.generate_content(prompt): a reply with a text, or an exception of the
\* client.
ModelReplies ==
    { [kind |-> "text", text |-> <<" ", "-", " ", "o", "k", "\n">>],
      [kind |-> "exception", text |-> <<>>] }

\* What a call leaves behind: the value returned, and the exception that left
\* the function ("" when none did).
Generated(value) == [value |-> value, raised |-> ""]

\* The article text a prompt carries; slicing None raises a TypeError, and
\* the prompts are built before the try block.
PromptText(content) == Slice(content.s, PromptBudget)

\* generate_article_summary without its try block: the client's exception
\* leaves the function.
generate_article_summary_unguarded(content, reply) ==
    IF IsNone(content) THEN [value |-> None, raised |-> "TypeError"]
    ELSE IF reply.kind = "exception" THEN [value |-> None, raised |-> "Exception"]
    ELSE Generated(Str(strip(reply.text)))

\* Lines 270-290.
generate_article_summary(content, reply) ==
    IF IsNone(content) THEN [value |-> None, raised |-> "TypeError"]
    ELSE IF reply.kind = "exception" THEN Generated(SummaryFallback)
    ELSE Generated(Str(strip(reply.text)))

\* Lines 292-312.
analyze_bias(content, source, reply) ==
    IF IsNone(content) THEN [value |-> None, raised |-> "TypeError"]
    ELSE IF reply.kind = "exception" THEN Generated(BiasFallback)
    ELSE Generated(Str(strip(reply.text)))

\* Lines 314-334.
generate_devils_advocate(content, source, reply) ==
    IF IsNone(content) THEN [value |-> None, raised |-> "TypeError"]
    ELSE IF reply.kind = "exception" THEN Generated(DevilsFallback)
    ELSE Generated(Str(strip(reply.text)))

---------------------------------------------------------------------------
(* st.cache_data(ttl=3600) around get_recent_articles, lines 142-143: one   *)
(* entry per argument, valid for ttl seconds from the call that made it.    *)

NoEntry == [present |-> FALSE, value |-> <<>>, expires |-> 0]

\* The function without its decorator: no call is answered from an entry.
CacheHitNever(entry, t) == FALSE

\* An entry answers a call at time t while it has not expired.
CacheHit(entry, t) == entry.present /\ t < entry.expires

\* The decorated call at time t: the value the caller gets, the requests sent
\* to the search API, and the entries afterwards.
cached_get_recent_articles(entries, t, source, r1, r2) ==
    IF CacheHit(entries[source], t)
    THEN [value |-> entries[source].value, requests |-> <<>>, entries |-> entries]
    ELSE LET out == get_recent_articles(source, r1, r2)
         IN [value |-> out.articles, requests |-> out.requests,
             entries |-> [entries EXCEPT ![source] =
                              [present |-> TRUE, value |-> out.articles,
                               expires |-> t + TTL]]]

---------------------------------------------------------------------------
(* The script, lines 346-402: one run per selection of a source. *)

\* What the search API answers during a run: a failure of the network, its
\* error body, or one of these lists.
PipelineLists ==
    { <<>>, <<aWeather, aBiden>>, <<aEmptyUrl, aNoTitle>>, <<aNoUrl>>, <<aNullDesc>> }

\* The sources selected in the runs: two of the four of the selectbox.
Selectable == { "CNN", "Politico" }

PipelineResponses ==
    { RequestFailed, HttpJson(429, ErrorBody) }
    \cup { HttpJson(200, OkBody(list)) : list \in PipelineLists }

\* What a news site answers during a run.
PipelinePages ==
    { PageException("Timeout"), Page(404, <<pLong>>), Page(200, <<pShort, pNav>>),
      Page(200, <<pNav, pLong>>) }

NoOutcome == [summary |-> "none", bias |-> "none", devils |-> "none"]
NoAnalysis == [summary |-> None, bias |-> None, devils |-> None]
NoCall == [made |-> FALSE, source |-> "", at |-> 0, value |-> <<>>, requests |-> <<>>,
           within |-> FALSE, expected |-> <<>>]
NoWindow == [open |-> FALSE, start |-> 0, value |-> <<>>]

\* An entry of log: a call of the run with its argument (a fetch also with
\* what it returned), or the exception that ended the run.
Call(op, idx, arg) == [op |-> op, idx |-> idx, arg |-> arg]

\* str(x) in an f-string.
Format(v) == IF IsNone(v) THEN <<"N", "o", "n", "e">> ELSE v.s

\* not x, for a string or None.
Falsy(v) == IsNone(v) \/ v.s = <<>>

\* Line 375: the text analysed when the page gave none.
TitleAndDescription(article) ==
    Str(Format(article.title) \o <<"\n">> \o Format(Get(article, "description", EmptyStr)))

\* The window the claims speak of: it opens with a call for a source and
\* lasts TTL seconds; entered on every call, by the caller's clock alone.
InWindow(w, t) == w.open /\ t < w.start + TTL

\* Lines 353-359: get_recent_articles is called through the cache, at a time
\* when the search API would answer r1 and then r2; without articles the run
\* stops at st.stop().
RunFromTop(source, r1, r2) ==
    LET call == cached_get_recent_articles(cache, now, source, r1, r2)
        within == InWindow(window[source], now)
    IN /\ selected_source' = source
       /\ cache' = call.entries
       /\ lastCall' = [made |-> TRUE, source |-> source, at |-> now,
                       value |-> call.value, requests |-> call.requests,
                       within |-> within, expected |-> window[source].value]
       /\ window' = IF within THEN window
                    ELSE [window EXCEPT ![source] =
                              [open |-> TRUE, start |-> now, value |-> call.value]]
       /\ articles' = call.value
       /\ IF call.value = <<>>
          THEN pc' = "stopped" /\ i' = 0
          ELSE pc' = "article" /\ i' = 1
       /\ article_content' = None /\ outcome' = NoOutcome /\ analysis' = NoAnalysis
       /\ log' = <<>>
       /\ UNCHANGED << sel, fetch, now >>

\* Lines 347-359: a source is selected in the selectbox and the script runs
\* from the top.  The search API's answers are chosen only for the requests
\* the run sends.
StartRun ==
    /\ pc \in { "idle", "stopped", "done", "raised" }
    /\ \E source \in Selectable :
         IF CacheHit(cache[source], now)
         THEN RunFromTop(source, NoResponse, NoResponse)
         ELSE \E r1 \in PipelineResponses :
                IF ~MakesSecondRequest(r1)
                THEN RunFromTop(source, r1, NoResponse)
                ELSE \E r2 \in PipelineResponses : RunFromTop(source, r1, r2)

\* Lines 362-375: the expander of articles[i] is opened and its page fetched.
\* article['title'] and article['url'] raise KeyError when the key is missing.
BeginArticle ==
    /\ pc = "article"
    /\ LET article == articles[i]
       IN IF "title" \notin DOMAIN article \/ "url" \notin DOMAIN article
          THEN /\ pc' = "raised"
               /\ log' = Append(log, Call("raise", i, Str(<<"KeyError">>)))
               /\ article_content' = None
          ELSE \E page \in PipelinePages :
                 LET fetched == fetch_full_article(article.url, page)
                     called == Append(log, [op |-> "fetch", idx |-> i, arg |-> article.url,
                                            got |-> fetched.value])
                 IN IF fetched.raised # ""
                    THEN /\ pc' = "raised"
                         /\ log' = Append(called, Call("raise", i, Str(<<fetched.raised>>)))
                         /\ article_content' = None
                    ELSE /\ pc' = "summary"
                         /\ log' = called
                         /\ article_content' = IF Falsy(fetched.value)
                                               THEN TitleAndDescription(article)
                                               ELSE fetched.value
    /\ outcome' = NoOutcome /\ analysis' = NoAnalysis
    /\ UNCHANGED << sel, fetch, now, cache, lastCall, window, selected_source, articles, i >>

\* Line 384.
Summary ==
    /\ pc = "summary"
    /\ \E reply \in ModelReplies :
         LET made == generate_article_summary(article_content, reply)
             called == Append(log, Call("summary", i, Str(PromptText(article_content))))
         IN /\ outcome' = [outcome EXCEPT !.summary = reply.kind]
            /\ IF made.raised # ""
               THEN /\ pc' = "raised" /\ analysis' = analysis
                    /\ log' = Append(called, Call("raise", i, Str(<<made.raised>>)))
               ELSE /\ pc' = "bias" /\ log' = called
                    /\ analysis' = [analysis EXCEPT !.summary = made.value]
    /\ UNCHANGED << sel, fetch, now, cache, lastCall, window, selected_source, articles, i,
                    article_content >>

\* Line 392.
Bias ==
    /\ pc = "bias"
    /\ \E reply \in ModelReplies :
         LET made == analyze_bias(article_content, selected_source, reply)
             called == Append(log, Call("bias", i, Str(PromptText(article_content))))
         IN /\ outcome' = [outcome EXCEPT !.bias = reply.kind]
            /\ IF made.raised # ""
               THEN /\ pc' = "raised" /\ analysis' = analysis
                    /\ log' = Append(called, Call("raise", i, Str(<<made.raised>>)))
               ELSE /\ pc' = "devils" /\ log' = called
                    /\ analysis' = [analysis EXCEPT !.bias = made.value]
    /\ UNCHANGED << sel, fetch, now, cache, lastCall, window, selected_source, articles, i,
                    article_content >>

\* Line 400, and the loop's step to the next article or the end of the script.
Devils ==
    /\ pc = "devils"
    /\ \E reply \in ModelReplies :
         LET made == generate_devils_advocate(article_content, selected_source, reply)
             called == Append(log, Call("devils", i, Str(PromptText(article_content))))
         IN /\ outcome' = [outcome EXCEPT !.devils = reply.kind]
            /\ IF made.raised # ""
               THEN /\ pc' = "raised" /\ analysis' = analysis /\ i' = i
                    /\ log' = Append(called, Call("raise", i, Str(<<made.raised>>)))
               ELSE /\ log' = called
                    /\ analysis' = [analysis EXCEPT !.devils = made.value]
                    /\ IF i < Len(articles)
                       THEN pc' = "article" /\ i' = i + 1
                       ELSE pc' = "done" /\ i' = i
    /\ UNCHANGED << sel, fetch, now, cache, lastCall, window, selected_source, articles,
                    article_content >>

\* Time passes between runs (a run itself reads the clock only in StartRun).
Tick ==
    /\ pc \in { "idle", "stopped", "done", "raised" }
    /\ now + (TTL \div 2) <= MaxClock
    /\ now' = now + (TTL \div 2)
    /\ UNCHANGED << sel, fetch, cache, lastCall, window, pc, selected_source, articles, i,
                    article_content, outcome, analysis, log >>

---------------------------------------------------------------------------
(* The specifications. *)

Init ==
    /\ sel = SelInit
    /\ fetch = FetchStart
    /\ now = 0
    /\ cache = [s \in DOMAIN NEWS_SOURCES |-> NoEntry]
    /\ lastCall = NoCall
    /\ window = [s \in DOMAIN NEWS_SOURCES |-> NoWindow]
    /\ pc = "idle"
    /\ selected_source = ""
    /\ articles = <<>>
    /\ i = 0
    /\ article_content = None
    /\ outcome = NoOutcome
    /\ analysis = NoAnalysis
    /\ log = <<>>

\* The script and its clock.
Next == StartRun \/ BeginArticle \/ Summary \/ Bias \/ Devils \/ Tick
Spec == Init /\ [][Next]_vars

\* One call of get_recent_articles, on any answer of the search API.
SelectNext == CallSelect
SpecSelect == Init /\ [][SelectNext]_vars

\* One call of fetch_full_article, on any answer of the site.
FetchNext == CallFetch
SpecFetch == Init /\ [][FetchNext]_vars

---------------------------------------------------------------------------
(* Notions the claims about the selector are stated in. *)

\* The lowered text of a field, '' when the key is missing or the value None.
TextOf(article, key) ==
    IF key \in DOMAIN article /\ article[key].t = "str" THEN lower(article[key].s) ELSE <<>>

\* The spec's classification: title or description contains a keyword,
\* whatever the case.
Political(article) ==
    \E k \in 1..Len(political_keywords) :
        \/ Contains(political_keywords[k], TextOf(article, "title"))
        \/ Contains(political_keywords[k], TextOf(article, "description"))
PoliticalTable == [a \in KnownArticles |-> Political(a)]
IsPolitical(article) == PoliticalTable[article]
NonPolitical(article) == ~PoliticalTable[article]

\* A title or description that is present and null.
NullField(article) ==
    \/ "title" \in DOMAIN article /\ article.title.t = "None"
    \/ "description" \in DOMAIN article /\ article.description.t = "None"

\* A non-empty title and a non-empty URL.
WellFormed(article) ==
    /\ "title" \in DOMAIN article /\ article.title.t = "str" /\ article.title.s # <<>>
    /\ "url" \in DOMAIN article /\ article.url.t = "str" /\ article.url.s # <<>>

Range(list) == { list[k] : k \in 1..Len(list) }

\* list without the later occurrences of an item.
RECURSIVE Dedup(_)
Dedup(list) ==
    IF list = <<>> THEN <<>>
    ELSE LET front == Dedup(SubSeq(list, 1, Len(list) - 1))
             last == list[Len(list)]
         IN IF last \in Range(front) THEN front ELSE Append(front, last)

\* The first n elements of list, all of them if there are fewer.
Take(list, n) == [k \in 1..(IF Len(list) < n THEN Len(list) ELSE n) |-> list[k]]

\* The response the call of sel ended on, and whether it was a success of
\* the search API: status 200 and at least one item.
FinalResponse == IF sel.r2.kind = "none" THEN sel.r1 ELSE sel.r2
Answered(r) == r.kind = "http" /\ r.parses
ZeroItems(r) == Answered(r) /\ ("articles" \notin DOMAIN r.data \/ r.data.articles = <<>>)
Successful ==
    /\ sel.phase = "returned"
    /\ sel.source \in DOMAIN NEWS_SOURCES
    /\ Answered(FinalResponse) /\ FinalResponse.status_code = 200
    /\ ~ZeroItems(FinalResponse)
Candidates == FinalResponse.data.articles

\* The political scan meets a null title or description: one of the first
\* candidates, up to the fifth political one, has it.
ScanMeetsNull(list) ==
    \E k \in 1..Len(list) :
        /\ NullField(list[k])
        /\ \A j \in 1..(k - 1) : ~NullField(list[j])
        /\ Len(SelectSeq(SubSeq(list, 1, k - 1), IsPolitical)) < 5

\* C1: the batch returned has at most 5 articles, and no non-political
\* article comes before a political one in it.
C1_AtMostFivePoliticalFirst ==
    sel.phase = "returned" =>
        /\ Len(sel.out.articles) <= 5
        /\ \A m, n \in 1..Len(sel.out.articles) :
               m < n => ~(NonPolitical(sel.out.articles[m]) /\ IsPolitical(sel.out.articles[n]))

\* C1's case: six or more candidates, a non-political one ahead of a political
\* one upstream, and a full batch holding both kinds.
C1_Witness ==
    /\ Successful
    /\ Len(Candidates) >= 6
    /\ NonPolitical(Candidates[1]) /\ IsPolitical(Candidates[Len(Candidates)])
    /\ Len(sel.out.articles) = 5
    /\ IsPolitical(sel.out.articles[1]) /\ NonPolitical(sel.out.articles[5])

UpstreamUnavailable(out) ==
    /\ out.articles = <<>>
    /\ out.error \in { "NewsAPI Error", "Network error while fetching articles",
                       "Error parsing API response" }

\* C3: a non-200 answer to either request ends the call in UpstreamUnavailable.
C3_Non200AlwaysUnavailable ==
    (/\ sel.phase = "returned"
     /\ \/ sel.r1.kind = "http" /\ sel.r1.status_code # 200
        \/ sel.r2.kind = "http" /\ sel.r2.status_code # 200)
    => UpstreamUnavailable(sel.out)

\* C5: every article of a returned batch has a non-empty title and URL.
C5_NoMalformedInBatch ==
    sel.phase = "returned" =>
        \A k \in 1..Len(sel.out.articles) : WellFormed(sel.out.articles[k])

\* What C10 says of the requests of one call: at most two, the domain-scoped
\* one first, and the broader one only after a first answer with zero items.
AtMostOneBroadRetry ==
    LET reqs == sel.out.requests
    IN /\ Len(reqs) <= 2
       /\ Len(reqs) >= 1 => reqs[1] = [param |-> "domains", value |-> NEWS_SOURCES[sel.source]]
       /\ Len(reqs) = 2 =>
              /\ reqs[2] = [param |-> "q", value |-> NEWS_SOURCES[sel.source]]
              /\ ZeroItems(sel.r1)
       /\ (sel.r2.kind # "none") = (Len(reqs) = 2)

---------------------------------------------------------------------------
(* Notions the claims about the fetcher are stated in. *)

\* What requests.get gave the call of fetch.
Answer == IF fetch.url.s = <<>> THEN PageException("MissingSchema") ELSE fetch.page

\* The fetch failed: a timeout or another network failure, a status that is
\* not 200, or markup that cannot be parsed.
FetchFailed ==
    \/ Answer.kind = "exception"
    \/ Answer.kind = "http" /\ (Answer.status_code # 200 \/ ~Answer.parses)

\* The paragraphs that survive: outside the removed elements, and with more
\* than 50 characters once trimmed.
Survives(p) ==
    /\ p.inside \notin { "script", "style", "nav", "footer", "header" }
    /\ Len(strip(p.text)) > 50
Survivors == SelectSeq(Answer.paragraphs, Survives)

\* The trimmed texts of ps, each but the last followed by one space.
RECURSIVE SpaceJoined(_)
SpaceJoined(ps) ==
    IF ps = <<>> THEN <<>>
    ELSE LET front == SubSeq(ps, 1, Len(ps) - 1)
         IN (IF front = <<>> THEN <<>> ELSE SpaceJoined(front) \o <<" ">>)
                \o strip(ps[Len(ps)].text)

\* C6: fetch_full_article never raises, and returns None when the fetch failed.
C6_FetchNeverRaises ==
    fetch.phase = "returned" =>
        /\ fetch.out.raised = ""
        /\ FetchFailed => fetch.out.value = None

\* C6's case: a 404 page with a long paragraph in it.
C6_Witness ==
    /\ fetch.phase = "returned"
    /\ Answer.kind = "http" /\ Answer.status_code = 404 /\ Answer.parses
    /\ Survivors # <<>>
    /\ fetch.out = [value |-> None, raised |-> ""]

\* C7 (as amended): on a page fetched with status 200 the call returns the
\* surviving paragraphs joined by single spaces, in document order; when none
\* survives that is the empty string, not None.
C7_SurvivorsJoined ==
    (fetch.phase = "returned" /\ ~FetchFailed) =>
        /\ fetch.out.raised = ""
        /\ fetch.out.value = Str(SpaceJoined(Survivors))
        /\ Survivors = <<>> => fetch.out.value = EmptyStr /\ fetch.out.value # None

\* C7's case: a 200 page of three paragraphs, none of which survives although
\* one is longer than 50 characters before trimming or lies in a removed element.
C7_Witness ==
    /\ fetch.phase = "returned" /\ ~FetchFailed
    /\ Len(Answer.paragraphs) = 3
    /\ Survivors = <<>>
    /\ \E k \in 1..3 : Len(Answer.paragraphs[k].text) > 50
    /\ fetch.out.value = EmptyStr

\* C7 as it was stated: with no surviving paragraph the call returns absent
\* content, as it does for a failed fetch.
C7_Original ==
    (fetch.phase = "returned" /\ ~FetchFailed /\ Survivors = <<>>) =>
        fetch.out.value = None

---------------------------------------------------------------------------
(* Notions the claims about the cache and the script are stated in. *)

AnalysisKinds == { "summary", "bias", "devils" }

FallbackOf(kind) ==
    CASE kind = "summary" -> SummaryFallback
      [] kind = "bias" -> BiasFallback
      [] kind = "devils" -> DevilsFallback

\* The run is over: the script reached its end, or an exception ended it.
RunOver == pc \in { "done", "raised" }

\* The calls of log, without the exception that may end it.
CallsMade == SelectSeq(log, LAMBDA e : e.op # "raise")

\* fetch, summary, bias, devil's advocate for the 1st article, then for the
\* 2nd, ...: the k-th call of a run over a batch.
CallOrder == << "fetch", "summary", "bias", "devils" >>
ExpectedOp(k) == CallOrder[((k - 1) % 4) + 1]
ExpectedIdx(k) == ((k - 1) \div 4) + 1

\* The calls made so far are the first calls of the expected order.
InOrder ==
    /\ Len(CallsMade) <= 4 * Len(articles)
    /\ \A k \in 1..Len(CallsMade) :
           CallsMade[k].op = ExpectedOp(k) /\ CallsMade[k].idx = ExpectedIdx(k)

\* The analyses of an article were given what its fetch returned, and the
\* article's title and description when that was no content.
FallbackInput ==
    \A k \in 1..Len(CallsMade) :
        CallsMade[k].op # "fetch" =>
            LET fetched == CallsMade[4 * (ExpectedIdx(k) - 1) + 1]
                article == articles[ExpectedIdx(k)]
            IN CallsMade[k].arg =
                   IF fetched.got = None \/ fetched.got = EmptyStr
                   THEN Str(article.title.s \o <<"\n">>
                                \o (IF "description" \in DOMAIN article
                                    THEN article.description.s ELSE <<>>))
                   ELSE fetched.got

\* C4: a call for a source made inside the source's memoization window
\* returns what the call that opened the window returned and sends nothing
\* to the search API; so a request is sent only when the window has expired.
C4_WindowServedFromCache ==
    lastCall.made =>
        /\ lastCall.within =>
               lastCall.requests = <<>> /\ lastCall.value = lastCall.expected
        /\ lastCall.requests # <<>> => ~lastCall.within

\* C4's case: time has passed, the call falls in a window that returned a
\* batch, and the other source's window holds another result.
C4_Witness ==
    /\ lastCall.made /\ lastCall.within /\ lastCall.at > 0
    /\ lastCall.value # <<>>
    /\ \E s \in Selectable :
           s # lastCall.source /\ window[s].open /\ window[s].value # lastCall.value

\* C8: an analysis whose model call raised is the fixed fallback string of its
\* kind, no analysis raises, and whatever the earlier analyses of an article
\* did, the later ones are called and return the model's text or their own
\* fallback.
C8_FallbackAndIndependence ==
    /\ \A kind \in AnalysisKinds :
           /\ outcome[kind] = "exception" => analysis[kind] = FallbackOf(kind)
           /\ outcome[kind] = "text" => analysis[kind] = Str(<<"-", " ", "o", "k">>)
    /\ pc = "raised" => log[Len(log)].arg = Str(<<"KeyError">>)
    /\ pc = "bias" => outcome.summary # "none"
    /\ pc = "devils" => outcome.summary # "none" /\ outcome.bias # "none"
    /\ (pc = "done" \/ (pc = "article" /\ i > 1)) =>
           \A kind \in AnalysisKinds : outcome[kind] # "none"

\* C8's case: the summary and the devil's advocate calls raised, the bias
\* call did not, and the article is finished.
C8_Witness ==
    /\ pc = "done"
    /\ outcome = [summary |-> "exception", bias |-> "text", devils |-> "exception"]
    /\ analysis.summary = SummaryFallback /\ analysis.devils = DevilsFallback
    /\ analysis.bias = Str(<<"-", " ", "o", "k">>)

\* C9: when a run over a batch is over, every article of the batch has had
\* its fetch and its three analyses, once each and in order, the analyses of
\* an article without content on its title and description.
C9_EveryArticleProcessed ==
    /\ InOrder
    /\ FallbackInput
    /\ RunOver => Len(CallsMade) = 4 * Len(articles)

\* C9 on the batches whose articles all have a title and a url key: there
\* the run is never ended by an exception, and C9 holds.
C9_OnKeyedBatches ==
    (\A k \in 1..Len(articles) : {"title", "url"} \subseteq DOMAIN articles[k]) =>
        /\ pc # "raised"
        /\ C9_EveryArticleProcessed

============================================================================
